---- MODULE Spec2Model ----
(***************************************************************************)
(* Family-budget server: the transaction ledger, the spending alerts and   *)
(* the three reporting operations of server/storage.ts, together with the  *)
(* HTTP handlers of server/routes.ts that call them.                       *)
(*                                                                         *)
(* Representation choices                                                  *)
(*  - A JavaScript Date is the record [sec, ms]: whole seconds since the   *)
(*    Unix epoch and the millisecond part 0..999.  The process time zone   *)
(*    is UTC.                                                              *)
(*  - A drizzle column integer(..., {mode: 'timestamp'}) holds             *)
(*    Math.floor(date.getTime() / 1000), i.e. seconds.                     *)
(*  - Date.getTime() is MsPerSec times the seconds.  TLC integers are 32   *)
(*    bits wide, so the product is never formed: the two SQL comparisons   *)
(*    between a stored column and a getTime() parameter are computed by    *)
(*    the equivalent integer divisions (ColGeTime, ColLeTime).             *)
(*  - Amounts (SQLite REAL) are integers of the smallest currency unit;    *)
(*    a quotient of two amounts is an exact rational (Rat).                *)
(*  - Row ids (crypto.randomUUID()) are drawn from disjoint pools.         *)
(***************************************************************************)
EXTENDS Integers, Sequences, FiniteSets, TLC

VARIABLES users, categories, transactions, spendingAlerts, now, resp, invites,
          inflight

vars == <<users, categories, transactions, spendingAlerts, now, resp, invites,
         inflight>>

NULL == "null"

\* ------------------------------------------------------------------ bounds
MaxTx == 2
MaxAlerts == 2
MaxInvites == 2
MaxInflight == 2

\* ------------------------------------------------------------- identifiers
UserIds == {"u1", "u2"}
GroupIds == {"g1", "g2"}
CategoryIds == {"c1", "c2"}
TxIds == 1..MaxTx
AlertIds == 1..MaxAlerts
InviteIds == 1..MaxInvites
Slots == 1..MaxInflight

\* ---------------------------------------------------------------- calendar
MsPerSec == 1000
SecPerDay == 24 * 60 * 60
EpochYear == 1970
EpochDayOfWeek == 4

IsLeap(y) == (y % 4 = 0 /\ y % 100 # 0) \/ y % 400 = 0

DaysInYear(y) == IF IsLeap(y) THEN 366 ELSE 365

DaysInMonth(y, m) ==
    IF m = 2 THEN (IF IsLeap(y) THEN 29 ELSE 28)
    ELSE IF m \in {4, 6, 9, 11} THEN 30 ELSE 31

RECURSIVE DaysBeforeYear(_)
DaysBeforeYear(y) ==
    IF y <= EpochYear THEN 0 ELSE DaysBeforeYear(y - 1) + DaysInYear(y - 1)

\* days from 1 January of year y to the first day of the month whose
\* 0-based index is mi; mi = 12 is January of the next year
RECURSIVE DaysBeforeMonthIndex(_, _)
DaysBeforeMonthIndex(y, mi) ==
    IF mi = 0 THEN 0 ELSE DaysBeforeMonthIndex(y, mi - 1) + DaysInMonth(y, mi)

\* new Date(year, monthIndex, day, hours, minutes, seconds): out-of-range
\* fields carry over (day 0 is the last day of the previous month)
NewDate(year, monthIndex, day, h, mi, s) ==
    [sec |-> (DaysBeforeYear(year) + DaysBeforeMonthIndex(year, monthIndex) + (day - 1))
                 * SecPerDay + h * 3600 + mi * 60 + s,
     ms  |-> 0]

\* Date getters
DayNumber(d) == d.sec \div SecPerDay

RECURSIVE YearFrom(_, _)
YearFrom(y, days) ==
    IF days < DaysInYear(y) THEN y ELSE YearFrom(y + 1, days - DaysInYear(y))

RECURSIVE MonthIndexFrom(_, _, _)
MonthIndexFrom(y, mi, days) ==
    IF days < DaysInMonth(y, mi + 1) THEN mi
    ELSE MonthIndexFrom(y, mi + 1, days - DaysInMonth(y, mi + 1))

getFullYear(d) == YearFrom(EpochYear, DayNumber(d))

getMonth(d) ==
    LET y == getFullYear(d)
    IN  MonthIndexFrom(y, 0, DayNumber(d) - DaysBeforeYear(y))

getDate(d) ==
    LET y == getFullYear(d)
    IN  DayNumber(d) - DaysBeforeYear(y) - DaysBeforeMonthIndex(y, getMonth(d)) + 1

getDay(d) == (DayNumber(d) + EpochDayOfWeek) % 7

\* d.setHours(0, 0, 0, 0)
SetHoursZero(d) == [sec |-> d.sec - (d.sec % SecPerDay), ms |-> 0]

\* new Date(d.getTime() - days * 24 * 60 * 60 * 1000)
MinusDays(d, days) == [sec |-> d.sec - days * SecPerDay, ms |-> d.ms]

\* an exact quotient n / d, d > 0, in lowest terms
RECURSIVE Gcd(_, _)
Gcd(a, b) == IF b = 0 THEN a ELSE Gcd(b, a % b)

Abs(x) == IF x < 0 THEN -x ELSE x

Rat(n, d) ==
    LET g == Gcd(Abs(n), d)
    IN  [num |-> n \div g, den |-> d \div g]

\* ------------------------------------------------ stored dates and queries
\* value the transactions.date column holds for a Date:
\* Math.floor(date.getTime() / 1000)
ColumnValue(date) == date.sec

\* sql`${transactions.date} >= ${d.getTime()}`: col >= d.sec * MsPerSec + d.ms
ColGeTime(col, d) ==
    LET q == col \div MsPerSec
        r == col % MsPerSec
    IN  q > d.sec \/ (q = d.sec /\ r >= d.ms)

\* sql`${transactions.date} <= ${d.getTime()}`: col <= d.sec * MsPerSec + d.ms
ColLeTime(col, d) ==
    LET q == col \div MsPerSec
        r == col % MsPerSec
    IN  q < d.sec \/ (q = d.sec /\ r <= d.ms)

\* sum(transactions.amount) over a set of rows, 0 standing for SQL NULL
RECURSIVE SumAmount(_)
SumAmount(rows) ==
    IF rows = {} THEN 0
    ELSE LET r == CHOOSE x \in rows : TRUE
         IN  r.amount + SumAmount(rows \ {r})

\* Math.round(n / d) for d > 0: the nearest integer, a half going up
MathRound(n, d) == (2 * n + d) \div (2 * d)

\* ------------------------------------------------------------------- state
\* users            : user id -> users.familyGroupId (NULL when in no group)
\* categories       : rows [id, familyGroupId, userId]
\* transactions     : rows [id, familyGroupId, userId, categoryId, amount,
\*                          type, date] with date the stored column value
\* spendingAlerts   : rows [id, familyGroupId, userId, categoryId (or NULL),
\*                          limitAmount, period, isActive]
\* now              : the clock new Date() reads
\* resp             : the result of the last call or request
\* invites          : rows [id, familyGroupId, invitedUserId, status] of
\*                    family_group_invites
\* inflight         : the requests being handled, each with what it has read
\*                    and computed so far
NoResp == [op |-> "none"]

FixtureUsers == [u \in UserIds |-> IF u = "u1" THEN "g1" ELSE "g2"]

FixtureCategories ==
    {[id |-> c, familyGroupId |-> "g1", userId |-> "u1"] : c \in CategoryIds}

\* dates the requests carry and instants the clock takes
Date1970 == NewDate(1970, 0, 15, 12, 0, 0)
Date2024 == NewDate(2024, 2, 15, 12, 0, 0)

Init ==
    /\ users = FixtureUsers
    /\ categories = FixtureCategories
    /\ transactions = {}
    /\ spendingAlerts = {}
    /\ now = Date1970
    /\ resp = NoResp
    /\ invites = {}
    /\ inflight = {}

\* ------------------------------------------------------------ transactions
FreshTxId == CHOOSE i \in TxIds : \A t \in transactions : t.id # i

\* DatabaseStorage.createTransaction: the row inserted, the NOT NULL and
\* foreign key constraints of the table deciding whether the insert succeeds
TransactionRowWithId(id, familyGroupId, userId, transaction) ==
    [id            |-> id,
     familyGroupId |-> familyGroupId,
     userId        |-> userId,
     categoryId    |-> transaction.categoryId,
     amount        |-> transaction.amount,
     type          |-> transaction.type,
     date          |-> ColumnValue(transaction.date)]

TransactionRow(familyGroupId, userId, transaction) ==
    TransactionRowWithId(FreshTxId, familyGroupId, userId, transaction)

TransactionInsertable(familyGroupId, userId, transaction) ==
    /\ familyGroupId \in GroupIds
    /\ userId \in UserIds
    /\ \E c \in categories : c.id = transaction.categoryId

\* POST /api/transactions by user u with a body the insert schema accepts
PostTransaction(u, body) ==
    /\ Cardinality(transactions) < MaxTx
    /\ IF TransactionInsertable(users[u], u, body)
       THEN /\ transactions' = transactions \cup {TransactionRow(users[u], u, body)}
            /\ resp' = [op |-> "POST /api/transactions", status |-> 201]
       ELSE /\ transactions' = transactions
            /\ resp' = [op |-> "POST /api/transactions", status |-> 500]
    /\ UNCHANGED <<users, categories, spendingAlerts, now, invites, inflight>>

\* --------------------------------------------------------------- analytics
MonthStart(year, month) == NewDate(year, month - 1, 1, 0, 0, 0)
MonthEnd(year, month) == NewDate(year, month, 0, 23, 59, 59)

\* rows the WHERE clause of getMonthlyBalance selects
MonthlyRows(userId, year, month) ==
    LET startDate == MonthStart(year, month)
        endDate   == MonthEnd(year, month)
    IN  {t \in transactions :
            /\ t.userId = userId
            /\ ColGeTime(t.date, startDate)
            /\ ColLeTime(t.date, endDate)}

\* the expenses taken over the rows of both types
getMonthlyBalanceOverAllTypes(userId, year, month) ==
    LET results  == MonthlyRows(userId, year, month)
        income   == SumAmount({t \in results : t.type = "income"})
        expenses == SumAmount(results)
    IN  [income |-> income, expenses |-> expenses, balance |-> income - expenses]

\* DatabaseStorage.getMonthlyBalance
getMonthlyBalance(userId, year, month) ==
    LET results  == MonthlyRows(userId, year, month)
        income   == SumAmount({t \in results : t.type = "income"})
        expenses == SumAmount({t \in results : t.type = "expense"})
    IN  [income |-> income, expenses |-> expenses, balance |-> income - expenses]

\* rows the WHERE clause of getCategoryExpenses selects, after the inner join
CategoryRows(userId, year, month) ==
    LET startDate == MonthStart(year, month)
        endDate   == MonthEnd(year, month)
    IN  {t \in transactions :
            /\ \E c \in categories : c.id = t.categoryId
            /\ t.userId = userId
            /\ t.type = "expense"
            /\ ColGeTime(t.date, startDate)
            /\ ColLeTime(t.date, endDate)}

\* the factor 100 left out
PercentageAsFraction(total, totalExpenses) ==
    IF totalExpenses > 0 THEN MathRound(total, totalExpenses) ELSE 0

\* item.total / totalExpenses * 100 rounded, 0 when there is nothing to divide by
Percentage(total, totalExpenses) ==
    IF totalExpenses > 0 THEN MathRound(100 * total, totalExpenses) ELSE 0

\* totalExpenses taken over the month's rows of both types
getCategoryExpensesOverAllTypes(userId, year, month) ==
    LET rows          == CategoryRows(userId, year, month)
        groups        == {t.categoryId : t \in rows}
        total(c)      == SumAmount({t \in rows : t.categoryId = c})
        totalExpenses == SumAmount(MonthlyRows(userId, year, month))
    IN  {[categoryId |-> c,
          total      |-> total(c),
          percentage |-> Percentage(total(c), totalExpenses)] : c \in groups}

\* DatabaseStorage.getCategoryExpenses: one entry per group of the GROUP BY
getCategoryExpenses(userId, year, month) ==
    LET rows          == CategoryRows(userId, year, month)
        groups        == {t.categoryId : t \in rows}
        total(c)      == SumAmount({t \in rows : t.categoryId = c})
        totalExpenses == SumAmount(rows)
    IN  {[categoryId |-> c,
          total      |-> total(c),
          percentage |-> Percentage(total(c), totalExpenses)] : c \in groups}

\* the totals of the previous call are added to those of this one
CallGetMonthlyBalanceAccumulating(id, year, month) ==
    /\ LET fresh == getMonthlyBalance(id, year, month)
           carry == IF resp.op = "getMonthlyBalance" THEN resp.body
                    ELSE [income |-> 0, expenses |-> 0, balance |-> 0]
       IN  resp' = [op |-> "getMonthlyBalance", scope |-> id, year |-> year,
                    month |-> month,
                    body |-> [income   |-> fresh.income + carry.income,
                              expenses |-> fresh.expenses + carry.expenses,
                              balance  |-> fresh.balance + carry.balance]]
    /\ UNCHANGED <<users, categories, transactions, spendingAlerts, now, invites, inflight>>

\* a direct call of the storage interface
CallGetMonthlyBalance(id, year, month) ==
    /\ resp' = [op |-> "getMonthlyBalance", scope |-> id, year |-> year,
                month |-> month, body |-> getMonthlyBalance(id, year, month)]
    /\ UNCHANGED <<users, categories, transactions, spendingAlerts, now, invites, inflight>>

CallGetCategoryExpenses(id, year, month) ==
    /\ resp' = [op |-> "getCategoryExpenses", scope |-> id, year |-> year,
                month |-> month, body |-> getCategoryExpenses(id, year, month)]
    /\ UNCHANGED <<users, categories, transactions, spendingAlerts, now, invites, inflight>>

\* GET /api/analytics/monthly/:year/:month by user u
GetAnalyticsMonthly(u, year, month) ==
    /\ IF month < 1 \/ month > 12
       THEN resp' = [op |-> "GET /api/analytics/monthly", user |-> u, status |-> 400]
       ELSE resp' = [op |-> "GET /api/analytics/monthly", user |-> u, status |-> 200,
                     scope |-> users[u], year |-> year, month |-> month,
                     body |-> getMonthlyBalance(users[u], year, month)]
    /\ UNCHANGED <<users, categories, transactions, spendingAlerts, now, invites, inflight>>

\* GET /api/analytics/categories/:year/:month by user u
GetAnalyticsCategories(u, year, month) ==
    /\ IF month < 1 \/ month > 12
       THEN resp' = [op |-> "GET /api/analytics/categories", user |-> u, status |-> 400]
       ELSE resp' = [op |-> "GET /api/analytics/categories", user |-> u, status |-> 200,
                     scope |-> users[u], year |-> year, month |-> month,
                     body |-> getCategoryExpenses(users[u], year, month)]
    /\ UNCHANGED <<users, categories, transactions, spendingAlerts, now, invites, inflight>>

\* --------------------------------------------------------- spending alerts
FreshAlertId == CHOOSE i \in AlertIds : \A a \in spendingAlerts : a.id # i

\* DatabaseStorage.createSpendingAlert: the row inserted
AlertRow(familyGroupId, userId, alert) ==
    [id            |-> FreshAlertId,
     familyGroupId |-> familyGroupId,
     userId        |-> userId,
     categoryId    |-> alert.categoryId,
     limitAmount   |-> alert.limitAmount,
     period        |-> alert.period,
     isActive      |-> alert.isActive]

AlertInsertable(familyGroupId, userId, alert) ==
    /\ familyGroupId \in GroupIds
    /\ userId \in UserIds
    /\ alert.categoryId = NULL \/ \E c \in categories : c.id = alert.categoryId

\* POST /api/spending-alerts by user u with a body the insert schema accepts
PostSpendingAlert(u, body) ==
    /\ Cardinality(spendingAlerts) < MaxAlerts
    /\ IF AlertInsertable(users[u], u, body)
       THEN /\ spendingAlerts' = spendingAlerts \cup {AlertRow(users[u], u, body)}
            /\ resp' = [op |-> "POST /api/spending-alerts", status |-> 201]
       ELSE /\ spendingAlerts' = spendingAlerts
            /\ resp' = [op |-> "POST /api/spending-alerts", status |-> 500]
    /\ UNCHANGED <<users, categories, transactions, now, invites, inflight>>

\* .set(alert): the fields of the partial body replace those of the row
SetFields(row, patch) ==
    [f \in DOMAIN row |-> IF f \in DOMAIN patch THEN patch[f] ELSE row[f]]

\* rows the WHERE clause of updateSpendingAlert matches
AlertsToUpdate(userId, alertId) ==
    {a \in spendingAlerts : a.id = alertId /\ a.userId = userId}

\* DatabaseStorage.updateSpendingAlert: the table after the update
updateSpendingAlert(userId, alertId, alert) ==
    (spendingAlerts \ AlertsToUpdate(userId, alertId))
        \cup {SetFields(a, alert) : a \in AlertsToUpdate(userId, alertId)}

\* a direct call of the storage interface
CallUpdateSpendingAlert(id, alertId, patch) ==
    /\ spendingAlerts' = updateSpendingAlert(id, alertId, patch)
    /\ resp' = [op |-> "updateSpendingAlert",
                found |-> AlertsToUpdate(id, alertId) # {}]
    /\ UNCHANGED <<users, categories, transactions, now, invites, inflight>>

\* PUT /api/spending-alerts/:id by user u
PutSpendingAlert(u, alertId, patch) ==
    /\ spendingAlerts' = updateSpendingAlert(users[u], alertId, patch)
    /\ resp' = [op |-> "PUT /api/spending-alerts",
                status |-> IF AlertsToUpdate(users[u], alertId) = {} THEN 404 ELSE 200]
    /\ UNCHANGED <<users, categories, transactions, now, invites, inflight>>

\* every alert is returned, whatever its family group
getSpendingAlertsOfAllGroups(familyGroupId) == spendingAlerts

\* DatabaseStorage.getSpendingAlerts: the alerts of the family group (the left
\* join adds the category, which no claim reads)
getSpendingAlerts(familyGroupId) ==
    {a \in spendingAlerts : a.familyGroupId = familyGroupId}

\* the filter left out
ActiveAlertsUnfiltered(alerts) == alerts

\* alerts.filter(a => a.isActive)
ActiveAlerts(alerts) == {a \in alerts : a.isActive}

\* the switch on alert.period
AlertStartDate(period, t) ==
    CASE period = "daily"  -> NewDate(getFullYear(t), getMonth(t), getDate(t), 0, 0, 0)
      [] period = "weekly" -> SetHoursZero(MinusDays(t, getDay(t)))
      [] OTHER             -> NewDate(getFullYear(t), getMonth(t), 1, 0, 0, 0)

\* the condition on the type left out
AlertRowsOfAllTypes(rows, familyGroupId, alert, t) ==
    LET startDate == AlertStartDate(alert.period, t)
    IN  {x \in rows :
            /\ x.familyGroupId = familyGroupId
            /\ ColGeTime(x.date, startDate)
            /\ ColLeTime(x.date, t)
            /\ alert.categoryId # NULL => x.categoryId = alert.categoryId}

\* rows the whereClause of checkSpendingAlerts selects for one alert out of
\* the rows of the transactions table
AlertRowsOf(rows, familyGroupId, alert, t) ==
    LET startDate == AlertStartDate(alert.period, t)
    IN  {x \in rows :
            /\ x.familyGroupId = familyGroupId
            /\ x.type = "expense"
            /\ ColGeTime(x.date, startDate)
            /\ ColLeTime(x.date, t)
            /\ alert.categoryId # NULL => x.categoryId = alert.categoryId}

AlertRows(familyGroupId, alert, t) == AlertRowsOf(transactions, familyGroupId, alert, t)

\* the percentage capped at 100
PercentageUsedClamped(currentSpending, limitAmount) ==
    IF limitAmount > 0
    THEN (IF currentSpending > limitAmount THEN Rat(100, 1)
          ELSE Rat(100 * currentSpending, limitAmount))
    ELSE Rat(0, 1)

\* a limit of 0 reported as used up
PercentageUsedFullWhenNoLimit(currentSpending, limitAmount) ==
    IF limitAmount > 0 THEN Rat(100 * currentSpending, limitAmount) ELSE Rat(100, 1)

\* limitAmount > 0 ? (currentSpending / limitAmount) * 100 : 0
PercentageUsed(currentSpending, limitAmount) ==
    IF limitAmount > 0 THEN Rat(100 * currentSpending, limitAmount) ELSE Rat(0, 1)

\* DatabaseStorage.checkSpendingAlerts, the clock reading t
AlertStatus(familyGroupId, alert, t) ==
    LET currentSpending == SumAmount(AlertRows(familyGroupId, alert, t))
    IN  [alert           |-> alert,
         currentSpending |-> currentSpending,
         percentageUsed  |-> PercentageUsed(currentSpending, alert.limitAmount)]

checkSpendingAlerts(familyGroupId, t) ==
    {AlertStatus(familyGroupId, a, t) : a \in ActiveAlerts(getSpendingAlerts(familyGroupId))}

\* the alerts whose limit is exceeded are switched off by the call
CallCheckSpendingAlertsDeactivating(id) ==
    /\ resp' = [op |-> "checkSpendingAlerts", scope |-> id, now |-> now,
                body |-> checkSpendingAlerts(id, now)]
    /\ spendingAlerts' =
           {IF \E e \in checkSpendingAlerts(id, now) :
                   e.alert = a /\ e.currentSpending > a.limitAmount
            THEN [a EXCEPT !.isActive = FALSE] ELSE a : a \in spendingAlerts}
    /\ UNCHANGED <<users, categories, transactions, now, invites, inflight>>

\* a direct call of the storage interface
CallCheckSpendingAlerts(id) ==
    /\ resp' = [op |-> "checkSpendingAlerts", scope |-> id, now |-> now,
                body |-> checkSpendingAlerts(id, now)]
    /\ UNCHANGED <<users, categories, transactions, spendingAlerts, now, invites, inflight>>

\* GET /api/spending-alerts/check by user u
GetSpendingAlertsCheck(u) ==
    /\ resp' = [op |-> "GET /api/spending-alerts/check", user |-> u, status |-> 200,
                scope |-> users[u], now |-> now,
                body |-> checkSpendingAlerts(users[u], now)]
    /\ UNCHANGED <<users, categories, transactions, spendingAlerts, now, invites, inflight>>

\* the rows of getSpendingAlerts in the order of the result,
\* orderBy(desc(createdAt)): the ids stand for the order of creation
RECURSIVE AlertsInOrder(_)
AlertsInOrder(alerts) ==
    IF alerts = {} THEN <<>>
    ELSE LET a == CHOOSE x \in alerts : \A y \in alerts : y.id <= x.id
         IN  <<a>> \o AlertsInOrder(alerts \ {a})

\* the for loop of checkSpendingAlerts over the remaining alerts, the store
\* rejecting the aggregation query of the alerts whose id is in failing: the
\* rejected await throws out of the function and results is lost
RECURSIVE CheckLoop(_, _, _, _, _)
CheckLoop(familyGroupId, alerts, t, failing, results) ==
    IF alerts = <<>> THEN [threw |-> FALSE, results |-> results]
    ELSE IF Head(alerts).id \in failing THEN [threw |-> TRUE, results |-> results]
    ELSE CheckLoop(familyGroupId, Tail(alerts), t, failing,
                   results \cup {AlertStatus(familyGroupId, Head(alerts), t)})

checkSpendingAlertsFailing(familyGroupId, t, failing) ==
    CheckLoop(familyGroupId,
              AlertsInOrder(ActiveAlerts(getSpendingAlerts(familyGroupId))),
              t, failing, {})

\* the statuses computed before the failure are sent with status 200
GetSpendingAlertsCheckPartial(u, failing) ==
    /\ resp' = [op |-> "GET /api/spending-alerts/check", user |-> u, status |-> 200,
                scope |-> users[u], now |-> now, failing |-> failing,
                body |-> checkSpendingAlertsFailing(users[u], now, failing).results]
    /\ UNCHANGED <<users, categories, transactions, spendingAlerts, now, invites, inflight>>

\* GET /api/spending-alerts/check by user u while the store rejects the
\* aggregation queries of the alerts in failing: the catch block answers 500
GetSpendingAlertsCheckFailing(u, failing) ==
    /\ LET r == checkSpendingAlertsFailing(users[u], now, failing)
       IN  resp' = IF r.threw
                   THEN [op |-> "GET /api/spending-alerts/check", user |-> u,
                         status |-> 500, scope |-> users[u], now |-> now,
                         failing |-> failing]
                   ELSE [op |-> "GET /api/spending-alerts/check", user |-> u,
                         status |-> 200, scope |-> users[u], now |-> now,
                         failing |-> failing, body |-> r.results]
    /\ UNCHANGED <<users, categories, transactions, spendingAlerts, now, invites, inflight>>

\* ---------------------------------------------------- inputs of the ledger
LedgerDates == {Date1970, Date2024}
LedgerBodies ==
    [categoryId : {"c1"}, amount : {0, 40}, type : {"expense"}, date : LedgerDates]
    \cup [categoryId : {"c2"}, amount : {70}, type : {"expense"}, date : LedgerDates]
    \cup [categoryId : {"c1"}, amount : {70}, type : {"income"}, date : LedgerDates]

\* POST /api/transactions requests <<user, body>>
LedgerPosts ==
    ({"u1"} \X LedgerBodies)
    \cup {<<"u2", [categoryId |-> "c1", amount |-> 40, type |-> "expense",
                   date |-> Date1970]>>}
ReportMonths == {<<1970, 1>>, <<2024, 3>>}

Next ==
    \/ \E post \in LedgerPosts : PostTransaction(post[1], post[2])
    \/ \E id \in UserIds, ym \in ReportMonths : CallGetMonthlyBalance(id, ym[1], ym[2])
    \/ \E id \in UserIds, ym \in ReportMonths : CallGetCategoryExpenses(id, ym[1], ym[2])
    \/ \E u \in UserIds, ym \in ReportMonths : GetAnalyticsMonthly(u, ym[1], ym[2])
    \/ \E u \in UserIds, ym \in ReportMonths : GetAnalyticsCategories(u, ym[1], ym[2])

Spec == Init /\ [][Next]_vars

\* ------------------------------------------------- what the reports are of
\* the transactions tagged with a scope, a family group or a single user
ScopeTransactions(scope) ==
    {t \in transactions : t.familyGroupId = scope \/ t.userId = scope}

\* the transaction's date lies in the calendar month, first instant of day 1
\* to 23:59:59 of the last day
InMonth(t, year, month) ==
    /\ MonthStart(year, month).sec <= t.date
    /\ t.date <= MonthEnd(year, month).sec

InMonthOfScope(scope, year, month) ==
    {t \in ScopeTransactions(scope) : InMonth(t, year, month)}

IsMonthlyBalance ==
    \/ resp.op = "getMonthlyBalance"
    \/ resp.op = "GET /api/analytics/monthly" /\ resp.status = 200

IsCategoryExpenses ==
    \/ resp.op = "getCategoryExpenses"
    \/ resp.op = "GET /api/analytics/categories" /\ resp.status = 200

\* C1: the result of getMonthlyBalance has income equal to the sum of the
\* scope's income transactions dated in the month, expenses equal to the sum
\* of its expense transactions dated in the month, and balance = income -
\* expenses.
C1_BalanceOfMonth ==
    IsMonthlyBalance =>
        LET rows == InMonthOfScope(resp.scope, resp.year, resp.month)
        IN  /\ resp.body.income = SumAmount({t \in rows : t.type = "income"})
            /\ resp.body.expenses = SumAmount({t \in rows : t.type = "expense"})
            /\ resp.body.balance = resp.body.income - resp.body.expenses

\* C2: the two analytics routes report exactly the transactions stored with
\* the caller's familyGroupId and dated in the month: the monthly totals and
\* the per-category totals are those of that set and of no other transaction.
C2_RoutesReportCallersGroup ==
    LET rows == {t \in transactions :
                    t.familyGroupId = resp.scope /\ InMonth(t, resp.year, resp.month)}
        exp  == {t \in rows : t.type = "expense"}
    IN  /\ (resp.op = "GET /api/analytics/monthly" /\ resp.status = 200) =>
               /\ resp.body.income = SumAmount({t \in rows : t.type = "income"})
               /\ resp.body.expenses = SumAmount(exp)
        /\ (resp.op = "GET /api/analytics/categories" /\ resp.status = 200) =>
               /\ {e.categoryId : e \in resp.body} = {t.categoryId : t \in exp}
               /\ \A e \in resp.body :
                      e.total = SumAmount({t \in exp : t.categoryId = e.categoryId})

\* C9: when the scope has no transaction dated in the requested month,
\* getMonthlyBalance returns income 0, expenses 0, balance 0 and
\* getCategoryExpenses returns the empty sequence.
C9_EmptyMonthIsZero ==
    /\ (IsMonthlyBalance /\ InMonthOfScope(resp.scope, resp.year, resp.month) = {}) =>
           resp.body = [income |-> 0, expenses |-> 0, balance |-> 0]
    /\ (IsCategoryExpenses /\ InMonthOfScope(resp.scope, resp.year, resp.month) = {}) =>
           resp.body = {}

RECURSIVE SumPercentage(_)
SumPercentage(entries) ==
    IF entries = {} THEN 0
    ELSE LET e == CHOOSE x \in entries : TRUE
         IN  e.percentage + SumPercentage(entries \ {e})

RECURSIVE SumTotal(_)
SumTotal(entries) ==
    IF entries = {} THEN 0
    ELSE LET e == CHOOSE x \in entries : TRUE
         IN  e.total + SumTotal(entries \ {e})

\* |percentage - 100 * total / totalExpenses| < 1 and |sum - 100| <= n - 1
PercentagesNearShares(entries) ==
    LET n == Cardinality(entries)
        T == SumTotal(entries)
        d == SumPercentage(entries) - 100
    IN  /\ d <= n - 1
        /\ -d <= n - 1
        /\ \A e \in entries :
              /\ e.percentage * T - 100 * e.total < T
              /\ 100 * e.total - e.percentage * T < T

\* C7 as stated: whenever getCategoryExpenses reports a month with at least
\* one expense transaction (n >= 1 entries), the percentages sum to 100 within
\* n - 1 and each is less than 1 away from its exact share.
C7_AsStated ==
    (IsCategoryExpenses /\ resp.body # {}) => PercentagesNearShares(resp.body)

\* C7 amended: whenever getCategoryExpenses returns n >= 1 entries whose
\* totals sum to more than 0, the percentages sum to 100 within n - 1 and each
\* is less than 1 away from its exact share 100 * total / totalExpenses.
C7_PercentagesSumTo100 ==
    (IsCategoryExpenses /\ resp.body # {} /\ SumTotal(resp.body) > 0) =>
        PercentagesNearShares(resp.body)

\* two categories, neither share a whole number of percent
C7_Witness ==
    /\ IsCategoryExpenses
    /\ Cardinality(resp.body) = 2
    /\ SumTotal(resp.body) > 0
    /\ \A e \in resp.body : e.percentage * SumTotal(resp.body) # 100 * e.total

\* C8 as stated: a result of exactly one category has percentage 100, the
\* amounts being 0 or more.
C8_AsStated ==
    (/\ IsCategoryExpenses
     /\ Cardinality(resp.body) = 1
     /\ \A t \in transactions : t.amount >= 0) =>
        \A e \in resp.body : e.percentage = 100

\* C8 amended: a result of exactly one category whose total is greater than
\* 0 has percentage 100.
C8_SingleCategoryIs100 ==
    (/\ IsCategoryExpenses
     /\ Cardinality(resp.body) = 1
     /\ \A t \in transactions : t.amount >= 0
     /\ \A e \in resp.body : e.total > 0) =>
        \A e \in resp.body : e.percentage = 100

\* one category with a positive total, next to an income of the same month
C8_Witness ==
    /\ IsCategoryExpenses
    /\ Cardinality(resp.body) = 1
    /\ \E e \in resp.body : e.total > 0 /\ e.percentage = 100
    /\ getMonthlyBalance(resp.scope, resp.year, resp.month).income > 0

\* ------------------------------------------------- the reports of a month
\* request dates on the two sides of a month's end, a leap February included
DateJanEnd1970 == NewDate(1970, 0, 31, 23, 59, 59)
DateFebStart1970 == NewDate(1970, 1, 1, 0, 0, 0)
DateFebEnd2024 == NewDate(2024, 1, 29, 23, 59, 59)
DateMarStart2024 == NewDate(2024, 2, 1, 0, 0, 0)

MonthDates == {DateJanEnd1970, DateFebStart1970, DateFebEnd2024, DateMarStart2024}

MonthBodies ==
    [categoryId : {"c1"}, amount : {40}, type : {"expense"}, date : MonthDates]
    \cup [categoryId : {"c1"}, amount : {70}, type : {"income"}, date : {DateFebStart1970}]
    \cup [categoryId : {"c2"}, amount : {-30}, type : {"expense"}, date : {DateJanEnd1970}]

MonthReports == {<<1970, 1>>, <<1970, 2>>, <<2024, 2>>, <<2024, 3>>}

\* month parameters the routes refuse
MonthsOutOfRange == {0, 13}

NextMonths ==
    \/ \E body \in MonthBodies : PostTransaction("u1", body)
    \/ \E ym \in MonthReports : CallGetMonthlyBalance("u1", ym[1], ym[2])
    \/ \E ym \in MonthReports : CallGetCategoryExpenses("u1", ym[1], ym[2])
    \/ \E m \in MonthsOutOfRange : GetAnalyticsMonthly("u1", 1970, m)
    \/ \E m \in MonthsOutOfRange : GetAnalyticsCategories("u1", 1970, m)

SpecMonths == Init /\ [][NextMonths]_vars

\* the first and the last second of the 1-indexed month of a year
FirstSecondOfMonth(year, month) ==
    (DaysBeforeYear(year) + DaysBeforeMonthIndex(year, month - 1)) * SecPerDay

LastSecondOfMonth(year, month) ==
    FirstSecondOfMonth(year, month) + DaysInMonth(year, month) * SecPerDay - 1

DatedInMonth(scope, year, month) ==
    {t \in ScopeTransactions(scope) :
        /\ FirstSecondOfMonth(year, month) <= t.date
        /\ t.date <= LastSecondOfMonth(year, month)}

\* C13: for month m in 1..12 of year y the window of getMonthlyBalance and
\* getCategoryExpenses runs from the first instant of day 1 to 23:59:59 of the
\* last day of the month, and the result counts the transactions dated in it
\* and none dated in another month.
C13_WindowIsTheMonth ==
    ((IsMonthlyBalance \/ IsCategoryExpenses) /\ resp.month \in 1..12) =>
        LET rows == DatedInMonth(resp.scope, resp.year, resp.month)
            exp  == {t \in rows : t.type = "expense"}
        IN  /\ MonthStart(resp.year, resp.month).sec
                   = FirstSecondOfMonth(resp.year, resp.month)
            /\ MonthEnd(resp.year, resp.month).sec
                   = LastSecondOfMonth(resp.year, resp.month)
            /\ IsMonthlyBalance =>
                   /\ resp.body.income = SumAmount(rows \ exp)
                   /\ resp.body.expenses = SumAmount(exp)
            /\ IsCategoryExpenses => SumTotal(resp.body) = SumAmount(exp)

\* C18: every entry getCategoryExpenses returns has total >= 0 and a
\* percentage between 0 and 100.
C18_EntriesInRange ==
    IsCategoryExpenses =>
        \A e \in resp.body : e.total >= 0 /\ e.percentage \in 0..100

\* C20: getCategoryExpenses returns one entry for each category with at least
\* one expense transaction of the scope dated in the month, and no entry for
\* another category.
C20_OneEntryPerCategoryOfMonth ==
    IsCategoryExpenses =>
        LET exp == {t \in InMonthOfScope(resp.scope, resp.year, resp.month) :
                       t.type = "expense"}
        IN  /\ {e.categoryId : e \in resp.body} = {t.categoryId : t \in exp}
            /\ Cardinality(resp.body) = Cardinality({t.categoryId : t \in exp})

\* --------------------------------------------------- the alerts in service
\* The clock of the alert checks.  With 32-bit integers a stored date can be
\* compared with getTime() of the clock only while the clock is in 1970; the
\* second instant is a present-day clock.
Clock1970 == [sec |-> NewDate(1970, 0, 15, 12, 0, 0).sec, ms |-> 500]
Clock2024 == NewDate(2024, 2, 20, 9, 0, 0)

DateMonday == NewDate(1970, 0, 12, 8, 0, 0)
Date2000 == NewDate(2000, 5, 15, 8, 0, 0)

Expense(c, amount, date) ==
    [categoryId |-> c, amount |-> amount, type |-> "expense", date |-> date]

Income(c, amount, date) ==
    [categoryId |-> c, amount |-> amount, type |-> "income", date |-> date]

\* sequences of POST /api/transactions requests <<user, body>> already served
AlertPostSequences ==
    { <<>>,
      << <<"u1", Expense("c1", 150, DateMonday)>>, <<"u1", Expense("c2", 100, DateMonday)>> >>,
      << <<"u1", Expense("c1", 150, Date2000)>>, <<"u2", Expense("c1", 40, DateMonday)>> >>,
      << <<"u1", Expense("c1", 0, DateMonday)>> >> }

\* the request served before the present-day clock reading
PostsOf2024 == << <<"u1", Expense("c2", 100, Date2024)>> >>

\* Monday 18 March 2024, in the week of the present-day clock reading
DateMonday2024 == NewDate(2024, 2, 18, 12, 0, 0)

PostsOfWeek2024 ==
    << <<"u1", Expense("c2", 100, Date2024)>>, <<"u1", Expense("c1", 40, DateMonday2024)>> >>

\* the transactions table after the requests of a sequence
RECURSIVE LedgerAfter(_)
LedgerAfter(posts) ==
    IF posts = <<>> THEN {}
    ELSE LET n    == Len(posts)
             post == posts[n]
         IN  LedgerAfter(SubSeq(posts, 1, n - 1))
                 \cup {TransactionRowWithId(n, FixtureUsers[post[1]], post[1], post[2])}

InitAlerts ==
    /\ users = FixtureUsers
    /\ categories = FixtureCategories
    /\ \/ /\ transactions \in {LedgerAfter(posts) : posts \in AlertPostSequences}
          /\ now = Clock1970
       \/ /\ transactions \in {LedgerAfter(PostsOf2024), LedgerAfter(PostsOfWeek2024)}
          /\ now = Clock2024
    /\ spendingAlerts = {}
    /\ resp = NoResp
    /\ invites = {}
    /\ inflight = {}

Alert(c, limit, period, active) ==
    [categoryId |-> c, limitAmount |-> limit, period |-> period, isActive |-> active]

\* POST /api/spending-alerts requests <<user, body>>
AlertPosts ==
    { <<"u1", Alert(NULL, 100, "monthly", TRUE)>>,
      <<"u1", Alert(NULL, 200, "weekly", TRUE)>>,
      <<"u1", Alert(NULL, 0, "monthly", TRUE)>>,
      <<"u1", Alert("c1", -50, "monthly", TRUE)>>,
      <<"u1", Alert(NULL, 100, "daily", FALSE)>>,
      <<"u1", Alert(NULL, 100, "yearly", TRUE)>>,
      <<"u2", Alert(NULL, 100, "monthly", TRUE)>> }

AlertPatches == {[isActive |-> FALSE], [isActive |-> TRUE]}

NextAlerts ==
    \/ \E post \in AlertPosts : PostSpendingAlert(post[1], post[2])
    \/ \E id \in UserIds, a \in AlertIds, patch \in AlertPatches :
          CallUpdateSpendingAlert(id, a, patch)
    \/ \E u \in UserIds, a \in AlertIds : PutSpendingAlert(u, a, [isActive |-> FALSE])
    \/ \E g \in GroupIds : CallCheckSpendingAlerts(g)
    \/ \E u \in UserIds : GetSpendingAlertsCheck(u)
    \/ CallGetCategoryExpenses("u1", 1970, 1)

SpecAlerts == InitAlerts /\ [][NextAlerts]_vars

\* ------------------------------------------- the reports beside the writes
\* the ledger holds an expense of 150 or nothing, the clock is in 1970
InitReads ==
    /\ users = FixtureUsers
    /\ categories = FixtureCategories
    /\ transactions \in {{}, LedgerAfter(<< <<"u1", Expense("c1", 150, DateMonday)>> >>)}
    /\ spendingAlerts = {}
    /\ now = Clock1970
    /\ resp = NoResp
    /\ invites = {}
    /\ inflight = {}

\* POST /api/transactions bodies of type income
IncomePosts == {Income("c1", 30, DateMonday), Income("c2", 30, Date2000)}

\* POST /api/spending-alerts bodies of user u1
ReadsAlertPosts == {Alert(NULL, 100, "monthly", TRUE), Alert("c1", 200, "weekly", TRUE)}

NextReads ==
    \/ \E body \in IncomePosts : PostTransaction("u1", body)
    \/ \E body \in ReadsAlertPosts : PostSpendingAlert("u1", body)
    \/ \E g \in GroupIds : CallCheckSpendingAlerts(g)
    \/ \E a \in AlertIds : GetSpendingAlertsCheckFailing("u1", {a})
    \/ CallGetMonthlyBalance("u1", 1970, 1)
    \/ CallGetCategoryExpenses("u1", 1970, 1)
    \/ GetAnalyticsMonthly("u1", 1970, 1)
    \/ GetAnalyticsCategories("u1", 1970, 1)

SpecReads == InitReads /\ [][NextReads]_vars

IsAlertCheck ==
    \/ resp.op = "checkSpendingAlerts"
    \/ resp.op = "GET /api/spending-alerts/check" /\ resp.status = 200

\* C3: checkSpendingAlerts returns no entry whose alert has isActive = false,
\* in the entry or in the store.
C3_NoInactiveAlert ==
    IsAlertCheck =>
        \A e \in resp.body :
            /\ e.alert.isActive
            /\ \A a \in spendingAlerts : a.id = e.alert.id => a.isActive

\* an active alert is returned while the scope holds an inactive one
C3_Witness ==
    /\ IsAlertCheck
    /\ resp.body # {}
    /\ \E a \in spendingAlerts : a.familyGroupId = resp.scope /\ ~a.isActive

\* C4: checkSpendingAlerts(scope) returns exactly one entry for each active
\* alert whose familyGroupId is the scope and no other entry.
C4_OneEntryPerActiveAlertOfScope ==
    IsAlertCheck =>
        LET mine == {a \in spendingAlerts : a.familyGroupId = resp.scope /\ a.isActive}
        IN  /\ {e.alert : e \in resp.body} = mine
            /\ Cardinality(resp.body) = Cardinality(mine)

\* one entry is returned while another scope holds an active alert
C4_Witness ==
    /\ IsAlertCheck
    /\ Cardinality(resp.body) = 1
    /\ \E a \in spendingAlerts : a.familyGroupId # resp.scope /\ a.isActive

\* C5: for every entry whose alert has limitAmount > 0, percentageUsed =
\* 100 * currentSpending / limitAmount, above 100 when currentSpending exceeds
\* limitAmount.
C5_PercentageUnclamped ==
    IsAlertCheck =>
        \A e \in resp.body :
            e.alert.limitAmount > 0 =>
                /\ e.percentageUsed.den > 0
                /\ e.percentageUsed.num * e.alert.limitAmount
                       = 100 * e.currentSpending * e.percentageUsed.den
                /\ e.currentSpending > e.alert.limitAmount =>
                       e.percentageUsed.num > 100 * e.percentageUsed.den

\* limit 100 and spending 150 give 150
C5_Witness ==
    /\ IsAlertCheck
    /\ \E e \in resp.body :
          /\ e.alert.limitAmount = 100
          /\ e.currentSpending = 150
          /\ e.percentageUsed = [num |-> 150, den |-> 1]

\* [start of the alert's period, now] holds the transaction's date
InAlertWindow(t, period, clock) ==
    /\ AlertStartDate(period, clock).sec <= t.date
    /\ t.date <= clock.sec

\* C6: an alert with no categoryId has currentSpending equal to the sum of
\* the scope's expense transactions dated in the alert's window, an alert with
\* categoryId = c the sum of those of them whose categoryId is c.
C6_SpendingOfWindow ==
    IsAlertCheck =>
        \A e \in resp.body :
            e.currentSpending =
                SumAmount({t \in transactions :
                    /\ t.familyGroupId = resp.scope
                    /\ t.type = "expense"
                    /\ InAlertWindow(t, e.alert.period, resp.now)
                    /\ e.alert.categoryId # NULL => t.categoryId = e.alert.categoryId})

\* 00:00:00 of the most recent Sunday on or before the clock reading, in
\* seconds: the day numbers d with (d + EpochDayOfWeek) % 7 = 0 are Sundays
SundayStartSec(clock) ==
    LET today  == clock.sec \div SecPerDay
        sunday == CHOOSE d \in (today - 6)..today : (d + EpochDayOfWeek) % 7 = 0
    IN  sunday * SecPerDay

\* the start of the period holding the clock reading, in seconds
PeriodStartSec(period, clock) ==
    CASE period = "daily"   -> (clock.sec \div SecPerDay) * SecPerDay
      [] period = "weekly"  -> SundayStartSec(clock)
      [] period = "monthly" -> NewDate(getFullYear(clock), getMonth(clock), 1, 0, 0, 0).sec

\* the scope's expenses an alert is about, dated from start through the clock
\* reading
ExpensesOfAlertSince(scope, alert, start, clock) ==
    {t \in transactions :
        /\ t.familyGroupId = scope
        /\ t.type = "expense"
        /\ start <= t.date
        /\ t.date <= clock.sec
        /\ alert.categoryId # NULL => t.categoryId = alert.categoryId}

\* C11: the window of a weekly alert starts at 00:00:00 of the most recent
\* Sunday on or before now, and its currentSpending is the sum of exactly the
\* expense transactions dated from that Sunday 00:00 through now.
C11_WeeklyWindowFromSunday ==
    IsAlertCheck =>
        \A e \in resp.body :
            e.alert.period = "weekly" =>
                /\ AlertStartDate("weekly", resp.now).sec = SundayStartSec(resp.now)
                /\ AlertStartDate("weekly", resp.now).ms = 0
                /\ e.currentSpending =
                       SumAmount(ExpensesOfAlertSince(resp.scope, e.alert,
                                                      SundayStartSec(resp.now), resp.now))

\* C12: for each of the periods daily, weekly and monthly the window ends at
\* the instant of evaluation: currentSpending is the sum of every expense
\* dated between the start of the period and now, and of no expense dated
\* after now.
C12_WindowEndsAtNow ==
    IsAlertCheck =>
        \A e \in resp.body :
            e.alert.period \in {"daily", "weekly", "monthly"} =>
                e.currentSpending =
                    SumAmount(ExpensesOfAlertSince(resp.scope, e.alert,
                                  PeriodStartSec(e.alert.period, resp.now), resp.now))

\* C14: a step that adds income transactions to the ledger, whatever their
\* category and date, leaves the result of checkSpendingAlerts as it was:
\* currentSpending and percentageUsed of every alert are unchanged.
C14_IncomeLeavesAlertsAlone ==
    [][(/\ spendingAlerts' = spendingAlerts
        /\ now' = now
        /\ transactions \subseteq transactions'
        /\ transactions' # transactions
        /\ \A t \in transactions' \ transactions : t.type = "income") =>
            \A g \in GroupIds :
                \A a \in ActiveAlerts(getSpendingAlerts(g)) :
                    LET spending == SumAmount(AlertRowsOf(transactions', g, a, now))
                    IN  /\ spending = AlertStatus(g, a, now).currentSpending
                        /\ PercentageUsed(spending, a.limitAmount)
                               = AlertStatus(g, a, now).percentageUsed]_vars

\* an alert reports the expense of 150 while the ledger holds the income of
\* 30 posted after it, of the alert's scope and inside the bounds of its query
C14_Witness ==
    /\ IsAlertCheck
    /\ \E e \in resp.body :
          /\ e.currentSpending = 150
          /\ \E t \in transactions :
                /\ t.type = "income"
                /\ t.amount = 30
                /\ t.familyGroupId = resp.scope
                /\ ColGeTime(t.date, AlertStartDate(e.alert.period, resp.now))
                /\ ColLeTime(t.date, resp.now)
                /\ e.alert.categoryId # NULL => t.categoryId = e.alert.categoryId

\* C15: an alert whose period is not one of daily, weekly, monthly makes
\* checkSpendingAlerts fail: no call returns an entry for such an alert.
C15_UnknownPeriodFails ==
    IsAlertCheck =>
        \A e \in resp.body : e.alert.period \in {"daily", "weekly", "monthly"}

ReportOps ==
    {"getMonthlyBalance", "getCategoryExpenses", "checkSpendingAlerts",
     "GET /api/analytics/monthly", "GET /api/analytics/categories",
     "GET /api/spending-alerts/check"}

\* C16: a step of getMonthlyBalance, getCategoryExpenses or
\* checkSpendingAlerts leaves the stored transactions, categories and spending
\* alerts, isActive and limitAmount of every alert included, unchanged.
C16_ReportsArePureReads ==
    [][resp'.op \in ReportOps =>
           /\ transactions' = transactions
           /\ categories' = categories
           /\ spendingAlerts' = spendingAlerts]_vars

\* an alert reported above its limit is in the store as it was, still active
C16_Witness ==
    /\ IsAlertCheck
    /\ \E e \in resp.body :
          /\ e.alert.limitAmount > 0
          /\ e.currentSpending > e.alert.limitAmount
          /\ e.alert \in spendingAlerts
          /\ e.alert.isActive

\* C17: when the store fails during the aggregation of an alert that
\* checkSpendingAlerts evaluates, the caller receives the single failure 500
\* and no AlertStatus entry, the statuses of the alerts evaluated before it
\* included.
C17_FailureIsWhole ==
    (/\ resp.op = "GET /api/spending-alerts/check"
     /\ "failing" \in DOMAIN resp
     /\ \E a \in ActiveAlerts(getSpendingAlerts(resp.scope)) : a.id \in resp.failing) =>
        /\ resp.status = 500
        /\ "body" \notin DOMAIN resp

\* the failure came after the status of another alert had been computed
C17_Witness ==
    /\ resp.op = "GET /api/spending-alerts/check"
    /\ resp.status = 500
    /\ checkSpendingAlertsFailing(resp.scope, resp.now, resp.failing).results # {}

\* C19: every stored transaction has amount >= 0 and every stored spending
\* alert has limitAmount > 0.
C19_StoredAmountsValid ==
    /\ \A t \in transactions : t.amount >= 0
    /\ \A a \in spendingAlerts : a.limitAmount > 0

\* C10: percentageUsed is 0 for an active alert whose limitAmount is not
\* positive, and every percentage of getCategoryExpenses is 0 when the total
\* of the expenses is 0.
C10_DivisionByZeroIsZero ==
    /\ IsAlertCheck =>
           \A e \in resp.body :
               e.alert.limitAmount <= 0 => e.percentageUsed = [num |-> 0, den |-> 1]
    /\ (IsCategoryExpenses /\ SumTotal(resp.body) = 0) =>
           \A e \in resp.body : e.percentage = 0

\* an alert with limit 0 and money spent
C10_Witness ==
    /\ IsAlertCheck
    /\ \E e \in resp.body :
          /\ e.alert.limitAmount = 0
          /\ e.currentSpending > 0
          /\ e.percentageUsed = [num |-> 0, den |-> 1]

\* a category reported with total 0
C10_WitnessCategories ==
    /\ IsCategoryExpenses
    /\ resp.body # {}
    /\ \A e \in resp.body : e.total = 0 /\ e.percentage = 0

NoSuchEmail == "nobody"
Emails == UserIds \cup {NoSuchEmail}

FreshInviteId == CHOOSE i \in InviteIds : \A v \in invites : v.id # i
FreshSlot == CHOOSE n \in Slots : \A r \in inflight : r.slot # n

\* the pending invites the existence check of the invite route selects
ExistingInvites(groupId, userId) ==
    {v \in invites :
        /\ v.familyGroupId = groupId
        /\ v.invitedUserId = userId
        /\ v.status = "pending"}

\* POST /api/family-groups/:groupId/invite, up to the insert: the user is
\* looked up by email and the pending invites of the pair are read.  A
\* request that passes both is in flight until its insert runs.
InviteCheck(groupId, email) ==
    /\ Cardinality(inflight) < MaxInflight
    /\ Cardinality(invites) + Cardinality(inflight) < MaxInvites
    /\ IF email \notin UserIds
       THEN /\ resp' = [op |-> "POST /api/family-groups/:groupId/invite", status |-> 404]
            /\ inflight' = inflight
       ELSE IF ExistingInvites(groupId, email) # {}
       THEN /\ resp' = [op |-> "POST /api/family-groups/:groupId/invite", status |-> 400]
            /\ inflight' = inflight
       ELSE /\ resp' = NoResp
            /\ inflight' = inflight \cup
                   {[slot |-> FreshSlot, op |-> "invite", groupId |-> groupId,
                     invitedUserId |-> email]}
    /\ UNCHANGED <<users, categories, transactions, spendingAlerts, now, invites>>

\* the insert of the invite route and its answer
InviteInsert(slot) ==
    \E r \in inflight :
        /\ r.slot = slot
        /\ r.op = "invite"
        /\ invites' = invites \cup
               {[id |-> FreshInviteId, familyGroupId |-> r.groupId,
                 invitedUserId |-> r.invitedUserId, status |-> "pending"]}
        /\ inflight' = inflight \ {r}
        /\ resp' = [op |-> "POST /api/family-groups/:groupId/invite", status |-> 201]
        /\ UNCHANGED <<users, categories, transactions, spendingAlerts, now>>

\* POST /api/family-group-invites/:inviteId/accept by user u: the invite is
\* marked where id and invitedUserId match, then read by id alone, and the
\* user is moved to the group of the row read
AcceptInvite(u, inviteId) ==
    LET marked == {IF v.id = inviteId /\ v.invitedUserId = u
                   THEN [v EXCEPT !.status = "accepted"] ELSE v : v \in invites}
        found  == {v \in marked : v.id = inviteId}
    IN  /\ invites' = marked
        /\ users' = IF found = {} THEN users
                    ELSE [users EXCEPT ![u] = (CHOOSE v \in found : TRUE).familyGroupId]
        /\ resp' = [op |-> "POST /api/family-group-invites/:inviteId/accept",
                    user |-> u, invite |-> inviteId, status |-> 200]
        /\ UNCHANGED <<categories, transactions, spendingAlerts, now, inflight>>

\* POST /api/family-group-invites/:inviteId/reject by user u
RejectInvite(u, inviteId) ==
    /\ invites' = {IF v.id = inviteId /\ v.invitedUserId = u
                   THEN [v EXCEPT !.status = "rejected"] ELSE v : v \in invites}
    /\ resp' = [op |-> "POST /api/family-group-invites/:inviteId/reject",
                user |-> u, invite |-> inviteId, status |-> 200]
    /\ UNCHANGED <<users, categories, transactions, spendingAlerts, now, inflight>>

NextInvites ==
    \/ \E g \in GroupIds, email \in Emails : InviteCheck(g, email)
    \/ \E slot \in Slots : InviteInsert(slot)
    \/ \E u \in UserIds, i \in InviteIds : AcceptInvite(u, i)
    \/ \E u \in UserIds, i \in InviteIds : RejectInvite(u, i)

SpecInvites == Init /\ [][NextInvites]_vars

\* C22: at most one invite with status pending exists for a pair of family
\* group and invited user, also when two invite requests for the pair are
\* handled concurrently.
C22_OnePendingInvitePerPair ==
    \A v, w \in invites :
        (/\ v.status = "pending"
         /\ w.status = "pending"
         /\ v.familyGroupId = w.familyGroupId
         /\ v.invitedUserId = w.invitedUserId) => v.id = w.id

\* C28: the status of an invite changes only from pending, to accepted or to
\* rejected; an accepted or rejected invite keeps its status.
C28_StatusOnlyLeavesPending ==
    [][\A v \in invites : \A w \in invites' :
           (w.id = v.id /\ w.status # v.status) =>
               /\ v.status = "pending"
               /\ w.status \in {"accepted", "rejected"}]_vars

\* C29: an accept request by user U changes U's familyGroupId only when the
\* invite exists, is pending and has invitedUserId = U; otherwise the users
\* and the invites are left as they were.
C29_AcceptOnlyOwnPendingInvite ==
    [][resp'.op = "POST /api/family-group-invites/:inviteId/accept" =>
           LET mine == \E v \in invites :
                           /\ v.id = resp'.invite
                           /\ v.status = "pending"
                           /\ v.invitedUserId = resp'.user
           IN  ~mine => (users' = users /\ invites' = invites)]_vars

\* --------------------------------------------------------------- categories
\* POST /api/categories by user u
PostCategory(u) ==
    /\ \E c \in CategoryIds : \A x \in categories : x.id # c
    /\ LET id == CHOOSE c \in CategoryIds : \A x \in categories : x.id # c
       IN  IF users[u] \in GroupIds
           THEN /\ categories' = categories \cup
                       {[id |-> id, familyGroupId |-> users[u], userId |-> u]}
                /\ resp' = [op |-> "POST /api/categories", status |-> 201]
           ELSE /\ categories' = categories
                /\ resp' = [op |-> "POST /api/categories", status |-> 500]
    /\ UNCHANGED <<users, transactions, spendingAlerts, now, invites, inflight>>

\* rows the WHERE clause of deleteCategory matches
CategoriesToDelete(familyGroupId, categoryId) ==
    {c \in categories : c.id = categoryId /\ c.familyGroupId = familyGroupId}

\* the rows of the category stay in the other tables
DeleteCategoryWithoutCascade(u, categoryId, rowCount) ==
    LET gone == CategoriesToDelete(users[u], categoryId)
    IN  /\ categories' = categories \ gone
        /\ resp' = [op |-> "DELETE /api/categories", user |-> u, id |-> categoryId,
                    status |-> IF gone # {} /\ rowCount THEN 204 ELSE 404]
        /\ UNCHANGED <<users, transactions, spendingAlerts, now, invites, inflight>>

\* DELETE /api/categories/:id by user u: DatabaseStorage.deleteCategory and
\* the ON DELETE cascade of transactions.category_id and
\* spending_alerts.category_id.  rowCount tells whether the driver's result
\* has the rowCount field the storage reads (neon-http) or not
\* (better-sqlite3, whose result has changes): without it deleted is false.
DeleteCategory(u, categoryId, rowCount) ==
    LET gone == CategoriesToDelete(users[u], categoryId)
        ids  == {c.id : c \in gone}
    IN  /\ categories' = categories \ gone
        /\ transactions' = {t \in transactions : t.categoryId \notin ids}
        /\ spendingAlerts' = {a \in spendingAlerts : a.categoryId \notin ids}
        /\ resp' = [op |-> "DELETE /api/categories", user |-> u, id |-> categoryId,
                    status |-> IF gone # {} /\ rowCount THEN 204 ELSE 404]
        /\ UNCHANGED <<users, now, invites, inflight>>

\* POST /api/transactions bodies of the categories spec
CategoryLedgerBodies == IncomePosts \cup {Expense("c2", 40, DateMonday)}

NextCategories ==
    \/ \E u \in UserIds : PostCategory(u)
    \/ \E u \in UserIds, c \in CategoryIds, rowCount \in BOOLEAN :
          DeleteCategory(u, c, rowCount)
    \/ \E body \in CategoryLedgerBodies : PostTransaction("u1", body)
    \/ \E body \in ReadsAlertPosts : PostSpendingAlert("u1", body)
    \/ \E g \in GroupIds : CallCheckSpendingAlerts(g)
    \/ CallGetCategoryExpenses("u1", 1970, 1)

SpecCategories == InitReads /\ [][NextCategories]_vars

C30_NoDanglingCategory ==
    LET stored == {c.id : c \in categories}
    IN  /\ \A t \in transactions : t.categoryId \in stored
        /\ \A a \in spendingAlerts : a.categoryId # NULL => a.categoryId \in stored
        /\ IsAlertCheck =>
               \A e \in resp.body :
                   e.alert.categoryId # NULL => e.alert.categoryId \in stored

\* category c1 is gone; the alert without category is still evaluated, and no
\* expense of c1 is left for it to count
C30_Witness ==
    /\ \A c \in categories : c.id # "c1"
    /\ IsAlertCheck
    /\ \E e \in resp.body : e.alert.categoryId = NULL /\ e.currentSpending = 40
    /\ Cardinality(spendingAlerts) = 1

\* C24: the window bounds are in the unit of the stored date column: a
\* direct call of getMonthlyBalance or getCategoryExpenses selects the rows of
\* its userId whose date instant lies between the window start and the
\* window end, and no row outside.
C24_BoundsInColumnUnit ==
    resp.op \in {"getMonthlyBalance", "getCategoryExpenses"} =>
        MonthlyRows(resp.scope, resp.year, resp.month)
            = {t \in transactions :
                   t.userId = resp.scope /\ InMonth(t, resp.year, resp.month)}

\* the next calendar month
MonthAfter(ym) == IF ym[2] = 12 THEN <<ym[1] + 1, 1>> ELSE <<ym[1], ym[2] + 1>>

\* months whose getMonthlyBalance counts transaction t of user userId
MonthsCounting(userId, t) ==
    {ym \in MonthReports : t \in MonthlyRows(userId, ym[1], ym[2])}

\* C25: the windows of two consecutive months neither overlap nor leave a
\* gap at the resolution of the stored dates, and every transaction is
\* counted by getMonthlyBalance for exactly one month, the one whose window
\* contains its date.
C25_WindowsPartitionTime ==
    /\ \A ym \in MonthReports :
           MonthStart(MonthAfter(ym)[1], MonthAfter(ym)[2]).sec
               = MonthEnd(ym[1], ym[2]).sec + 1
    /\ resp.op = "getMonthlyBalance" =>
           \A t \in transactions : t.userId = resp.scope =>
               MonthsCounting(resp.scope, t)
                   = {ym \in MonthReports : InMonth(t, ym[1], ym[2])}

\* ------------------------------------------------- updates and deletions
\* rows the WHERE clause of updateTransaction and deleteTransaction matches
TransactionsToUpdate(userId, transactionId) ==
    {t \in transactions : t.id = transactionId /\ t.userId = userId}

\* DatabaseStorage.updateTransaction: the table after the update
updateTransaction(userId, transactionId, transaction) ==
    (transactions \ TransactionsToUpdate(userId, transactionId))
        \cup {SetFields(t, transaction) : t \in TransactionsToUpdate(userId, transactionId)}

\* PUT /api/transactions/:id by user u
PutTransaction(u, transactionId, patch) ==
    /\ transactions' = updateTransaction(users[u], transactionId, patch)
    /\ resp' = [op |-> "PUT /api/transactions", user |-> u, id |-> transactionId,
                status |-> IF TransactionsToUpdate(users[u], transactionId) = {}
                           THEN 404 ELSE 200]
    /\ UNCHANGED <<users, categories, spendingAlerts, now, invites, inflight>>

\* DELETE /api/transactions/:id by user u; rowCount as in DeleteCategory
DeleteTransaction(u, transactionId, rowCount) ==
    LET gone == TransactionsToUpdate(users[u], transactionId)
    IN  /\ transactions' = transactions \ gone
        /\ resp' = [op |-> "DELETE /api/transactions", user |-> u,
                    id |-> transactionId,
                    status |-> IF gone # {} /\ rowCount THEN 204 ELSE 404]
        /\ UNCHANGED <<users, categories, spendingAlerts, now, invites, inflight>>

\* DELETE /api/spending-alerts/:id by user u; rowCount as in DeleteCategory
DeleteSpendingAlert(u, alertId, rowCount) ==
    LET gone == AlertsToUpdate(users[u], alertId)
    IN  /\ spendingAlerts' = spendingAlerts \ gone
        /\ resp' = [op |-> "DELETE /api/spending-alerts", user |-> u,
                    id |-> alertId,
                    status |-> IF gone # {} /\ rowCount THEN 204 ELSE 404]
        /\ UNCHANGED <<users, categories, transactions, now, invites, inflight>>

\* request bodies of the two PUT routes
TransactionPatch == [amount |-> 10]
AlertPatch == [isActive |-> FALSE]

NextOwner ==
    \/ \E body \in IncomePosts : PostTransaction("u1", body)
    \/ \E body \in ReadsAlertPosts : PostSpendingAlert("u1", body)
    \/ \E u \in UserIds, id \in TxIds : PutTransaction(u, id, TransactionPatch)
    \/ \E u \in UserIds, id \in TxIds, rowCount \in BOOLEAN :
          DeleteTransaction(u, id, rowCount)
    \/ \E u \in UserIds, id \in AlertIds : PutSpendingAlert(u, id, AlertPatch)
    \/ \E u \in UserIds, id \in AlertIds, rowCount \in BOOLEAN :
          DeleteSpendingAlert(u, id, rowCount)

SpecOwner == InitReads /\ [][NextOwner]_vars

\* C26: a PUT or DELETE on /api/transactions/:id or /api/spending-alerts/:id
\* by the user who created the row and belongs to the row's family group
\* succeeds (200 or 204) and is not answered 404.
C26_CreatorCanUpdateAndDelete ==
    [][\A u \in UserIds :
          /\ \A t \in transactions :
                 (t.userId = u /\ t.familyGroupId = users[u]) =>
                     /\ PutTransaction(u, t.id, TransactionPatch) => resp'.status = 200
                     /\ \A rowCount \in BOOLEAN :
                            DeleteTransaction(u, t.id, rowCount) => resp'.status = 204
          /\ \A a \in spendingAlerts :
                 (a.userId = u /\ a.familyGroupId = users[u]) =>
                     /\ PutSpendingAlert(u, a.id, AlertPatch) => resp'.status = 200
                     /\ \A rowCount \in BOOLEAN :
                            DeleteSpendingAlert(u, a.id, rowCount) => resp'.status = 204
      ]_vars

\* ------------------------------- checkSpendingAlerts, one query at a time
\* checkSpendingAlerts up to its loop: the awaited getSpendingAlerts and the
\* filter on isActive
CheckBegin(familyGroupId) ==
    /\ Cardinality(inflight) < MaxInflight
    /\ inflight' = inflight \cup
           {[slot |-> FreshSlot, op |-> "check", familyGroupId |-> familyGroupId,
             alerts |-> AlertsInOrder(ActiveAlerts(getSpendingAlerts(familyGroupId))),
             results |-> {}]}
    /\ resp' = NoResp
    /\ UNCHANGED <<users, categories, transactions, spendingAlerts, now, invites>>

\* one round of the loop: the clock is read, the aggregation query of the
\* next alert is awaited on the table as it is then, the entry is pushed
CheckQuery(slot) ==
    \E r \in inflight :
        /\ r.slot = slot
        /\ r.op = "check"
        /\ r.alerts # <<>>
        /\ inflight' = (inflight \ {r}) \cup
               {[r EXCEPT !.alerts = Tail(r.alerts),
                          !.results = r.results \cup
                              {AlertStatus(r.familyGroupId, Head(r.alerts), now)}]}
        /\ resp' = NoResp
        /\ UNCHANGED <<users, categories, transactions, spendingAlerts, now, invites>>

\* return results
CheckReturn(slot) ==
    \E r \in inflight :
        /\ r.slot = slot
        /\ r.op = "check"
        /\ r.alerts = <<>>
        /\ inflight' = inflight \ {r}
        /\ resp' = [op |-> "checkSpendingAlerts", scope |-> r.familyGroupId,
                    now |-> now, body |-> r.results]
        /\ UNCHANGED <<users, categories, transactions, spendingAlerts, now, invites>>

\* requests of the other callers
InterleavedPosts == {Expense("c1", 150, DateMonday), Income("c1", 30, DateMonday)}
InterleavedAlertPosts == {Alert(NULL, 100, "monthly", TRUE), Alert("c1", 200, "monthly", TRUE)}

NextInterleaved ==
    \/ \E body \in InterleavedPosts : PostTransaction("u1", body)
    \/ \E body \in InterleavedAlertPosts : PostSpendingAlert("u1", body)
    \/ \E g \in GroupIds : CheckBegin(g)
    \/ \E slot \in Slots : CheckQuery(slot)
    \/ \E slot \in Slots : CheckReturn(slot)

SpecInterleaved == InitReads /\ [][NextInterleaved]_vars

\* C27: in the result of one checkSpendingAlerts call, two entries whose
\* alerts have the same period and the same categoryId have the same
\* currentSpending.
C27_SameAlertsSameSpending ==
    resp.op = "checkSpendingAlerts" =>
        \A e, f \in resp.body :
            (e.alert.period = f.alert.period /\ e.alert.categoryId = f.alert.categoryId)
                => e.currentSpending = f.currentSpending

====
